---- MODULE Spec2Model ----
(***************************************************************************)
(* Client-side simulation loop of the multiplayer FPS client               *)
(* (src/src/game/GameEngine.ts) as it is driven by the Game component      *)
(* (src/src/components/Game.tsx), and the mutations of the authority       *)
(* (src/convex/schema.ts).                                                 *)
(*                                                                         *)
(* Numbers are fixed point: lengths are in 1/1000 of a world unit,         *)
(* velocities in 1/1000 of a unit per second, times in milliseconds.       *)
(* Date.now() and THREE.Clock are one clock, `now`.                        *)
(***************************************************************************)
EXTENDS Integers, Sequences, FiniteSets, TLC

VARIABLES
    now,              \* Date.now()
    currentPlayerId,  \* GameEngine.currentPlayerId
    isRunning,        \* GameEngine.isRunning
    lastUpdateTime,   \* GameEngine.lastUpdateTime
    player,           \* GameEngine.player
    controls,         \* GameEngine.controls
    players,          \* GameEngine.players : id -> mesh position and colour
    bullets,          \* GameEngine.bullets : id -> mesh position, velocity, startTime
    scene,            \* THREE.Scene : number of meshes in the scene per handle
    gameState,        \* the snapshot last handed to updateGameState (Game.tsx gameState)
    deltaTime,        \* the clock.getDelta() value of the last frame
    hits,             \* the onHit(bulletId, victimId) calls of the last step
    report,           \* the onPositionUpdate call of the last step, or NoReport
    lastOp,           \* the handler that ran last
    destroyed,        \* ids of projectiles updateBullets has deleted so far
    instantiated,     \* id -> time and record timestamp of its latest instantiation
    reconciledAs,     \* values of currentPlayerId under which snapshots were reconciled
    ticks,            \* number of animation frames so far
    snapshots,        \* number of snapshots so far
    camera,           \* GameEngine.camera : position and rotation
    pointerLock,      \* document.pointerLockElement === canvas
    mouseEvent,       \* the mouse event handled last
    shots,            \* the onShoot(startPosition, direction) calls so far
    flashes,          \* muzzle flashes whose 50 ms timeout is pending
    listening,        \* the listeners of setupEventListeners are attached
    rafPending,       \* a requestAnimationFrame(animate) callback is scheduled
    disposed,         \* dispose() has returned
    reportedAt,       \* time of the latest onPositionUpdate call, or of start()
    gameEngineRef,    \* Game.tsx gameEngineRef.current: "null", "full" or "simplified"
    isEngineReady,    \* Game.tsx isEngineReady
    alerted,          \* initializeEngine has shown its failure alert
    db,               \* the authority's tables: players, bullets, kills
    request,          \* the arguments of the authority's last mutation
    result,           \* what the authority's last mutation returned
    applied,          \* bullet id -> number of its hit reports that changed a health
    outbox            \* the mutation calls of Game.tsx that are on their way

vars == <<now, currentPlayerId, isRunning, lastUpdateTime, player, controls,
          players, bullets, scene, gameState, deltaTime, hits, report, lastOp,
          destroyed, instantiated, reconciledAs, ticks, snapshots,
          camera, pointerLock, mouseEvent, shots, flashes, listening, rafPending,
          disposed, reportedAt, gameEngineRef, isEngineReady, alerted, db, request,
          result, applied, outbox>>

\* the pointer and what the mouse handlers leave behind
pointer == <<pointerLock, mouseEvent, shots, flashes>>

\* the state of the Game component around the engine
component == <<gameEngineRef, isEngineReady, alerted>>

\* the state of the authority
authority == <<db, request, result, applied>>

----------------------------------------------------------------------------
(* Bounds of the model *)

MaxTicks == 2
MaxMotionTicks == 2
MaxSnapshots == 2
MaxFrames == 5
MaxInputTicks == 2
MaxShots == 2
MaxYaw == 800
MaxFaultySnapshots == 2
MaxJoined == 2
MaxIssued == 4
MaxGameTicks == 2
MaxSyncs == 2

----------------------------------------------------------------------------
(* Program constants *)

StandHeight == 1800
CrouchHeight == 1200
WalkSpeed == 5
SprintSpeed == 8
JumpSpeed == 8000
Gravity == 25
ArenaClamp == 49000
ReportInterval == 50
BulletLifetime == 5000
BulletBound == 50000
BulletCeiling == 10000
HitDistance == 500
BulletSpeed == 100
MouseSensitivity == 2
MuzzleHeight == 100
MaxHealth == 100
BulletDamage == 25

----------------------------------------------------------------------------
(* Arithmetic *)

Abs(a) == IF a < 0 THEN -a ELSE a

\* a / b rounded toward zero, b > 0
Div(a, b) == IF a >= 0 THEN a \div b ELSE -((-a) \div b)

Min(a, b) == IF a < b THEN a ELSE b
Max(a, b) == IF a > b THEN a ELSE b

Vec(a, b, c) == [x |-> a, y |-> b, z |-> c]

\* Vector3.add(v.clone().multiplyScalar(dt)) with dt in milliseconds
AddScaled(p, v, dt) ==
    [x |-> p.x + Div(v.x * dt, 1000),
     y |-> p.y + Div(v.y * dt, 1000),
     z |-> p.z + Div(v.z * dt, 1000)]

\* THREE.MathUtils.lerp(a, b, dt * 10): a + (b - a) * t with t = dt / 100 ms
Lerp(a, b, dt) == a + (b - a) * (dt \div 100) + Div((b - a) * (dt % 100), 100)

\* cos and sin of a yaw given in 1/1000 rad, in 1/1000; the yaws the model
\* uses are whole quarter turns (pi/2 is 1571)
QuarterTurn == 1571
Cos(a) == CASE a % (4 * QuarterTurn) = 0 -> 1000
            [] a % (4 * QuarterTurn) = QuarterTurn -> 0
            [] a % (4 * QuarterTurn) = 2 * QuarterTurn -> -1000
            [] OTHER -> 0
Sin(a) == CASE a % (4 * QuarterTurn) = 0 -> 0
            [] a % (4 * QuarterTurn) = QuarterTurn -> 1000
            [] a % (4 * QuarterTurn) = 2 * QuarterTurn -> 0
            [] OTHER -> -1000

----------------------------------------------------------------------------
(* Input sampler: onKeyDown / onKeyUp *)

KeyCodes == {"KeyW", "KeyS", "KeyA", "KeyD", "Space", "ShiftLeft", "ControlLeft"}

ControlOf(code) ==
    CASE code = "KeyW" -> "forward"
      [] code = "KeyS" -> "backward"
      [] code = "KeyA" -> "left"
      [] code = "KeyD" -> "right"
      [] code = "Space" -> "jump"
      [] code = "ShiftLeft" -> "sprint"
      [] code = "ControlLeft" -> "crouch"

NoControls ==
    [forward |-> FALSE, backward |-> FALSE, left |-> FALSE, right |-> FALSE,
     jump |-> FALSE, sprint |-> FALSE, crouch |-> FALSE]

----------------------------------------------------------------------------
(* Local motion integrator: updatePlayer *)

InitialPlayer ==
    [position |-> Vec(0, StandHeight, 0),
     velocity |-> Vec(0, 0, 0),
     rotation |-> [x |-> 0, y |-> 0],
     isGrounded |-> TRUE,
     height |-> StandHeight]

\* direction.normalize(): the components of the unit vector, in 1/1000
Normalize(dx, dz) ==
    IF dx # 0 /\ dz # 0 THEN [x |-> dx * 707, z |-> dz * 707]
    ELSE [x |-> dx * 1000, z |-> dz * 1000]

\* direction.applyAxisAngle((0,1,0), yaw)
ApplyAxisAngleY(d, yaw) ==
    [x |-> Div(d.x * Cos(yaw) + d.z * Sin(yaw), 1000),
     z |-> Div(d.z * Cos(yaw) - d.x * Sin(yaw), 1000)]

\* a boundary check that clamps one side only
ClampArenaOneSided(v) == Min(ArenaClamp, v)

\* Math.max(-49, Math.min(49, v))
ClampArena(v) == Max(-ArenaClamp, Min(ArenaClamp, v))

\* an integrator without the ground collision
updatePlayerFallingThrough(p, c, dt) ==
    LET targetHeight == IF c.crouch THEN CrouchHeight ELSE StandHeight
        height == Lerp(p.height, targetHeight, dt)
        moveSpeed == IF c.sprint THEN SprintSpeed ELSE WalkSpeed
        dz == (IF c.backward THEN 1 ELSE 0) - (IF c.forward THEN 1 ELSE 0)
        dx == (IF c.right THEN 1 ELSE 0) - (IF c.left THEN 1 ELSE 0)
        dir == ApplyAxisAngleY(Normalize(dx, dz), p.rotation.y)
        moving == dx # 0 \/ dz # 0
        vx == IF moving THEN dir.x * moveSpeed ELSE Div(p.velocity.x * 4, 5)
        vz == IF moving THEN dir.z * moveSpeed ELSE Div(p.velocity.z * 4, 5)
        jumps == c.jump /\ p.isGrounded
        grounded1 == IF jumps THEN FALSE ELSE p.isGrounded
        vy0 == IF jumps THEN JumpSpeed ELSE p.velocity.y
        vy1 == IF ~grounded1 THEN vy0 - Gravity * dt ELSE vy0
        pos == AddScaled(p.position, Vec(vx, vy1, vz), dt)
        floor == Div(height, 2)
        lands == FALSE
    IN  [position |-> Vec(ClampArena(pos.x),
                          IF lands THEN floor ELSE pos.y,
                          ClampArena(pos.z)),
         velocity |-> Vec(vx, IF lands THEN 0 ELSE vy1, vz),
         rotation |-> p.rotation,
         isGrounded |-> IF lands THEN TRUE ELSE grounded1,
         height |-> height]

\* the player after updatePlayer(dt), before the position report
updatePlayer(p, c, dt) ==
    LET targetHeight == IF c.crouch THEN CrouchHeight ELSE StandHeight
        height == Lerp(p.height, targetHeight, dt)
        moveSpeed == IF c.sprint THEN SprintSpeed ELSE WalkSpeed
        dz == (IF c.backward THEN 1 ELSE 0) - (IF c.forward THEN 1 ELSE 0)
        dx == (IF c.right THEN 1 ELSE 0) - (IF c.left THEN 1 ELSE 0)
        dir == ApplyAxisAngleY(Normalize(dx, dz), p.rotation.y)
        moving == dx # 0 \/ dz # 0
        vx == IF moving THEN dir.x * moveSpeed ELSE Div(p.velocity.x * 4, 5)
        vz == IF moving THEN dir.z * moveSpeed ELSE Div(p.velocity.z * 4, 5)
        jumps == c.jump /\ p.isGrounded
        grounded1 == IF jumps THEN FALSE ELSE p.isGrounded
        vy0 == IF jumps THEN JumpSpeed ELSE p.velocity.y
        vy1 == IF ~grounded1 THEN vy0 - Gravity * dt ELSE vy0
        pos == AddScaled(p.position, Vec(vx, vy1, vz), dt)
        floor == Div(height, 2)
        lands == pos.y <= floor
    IN  [position |-> Vec(ClampArena(pos.x),
                          IF lands THEN floor ELSE pos.y,
                          ClampArena(pos.z)),
         velocity |-> Vec(vx, IF lands THEN 0 ELSE vy1, vz),
         rotation |-> p.rotation,
         isGrounded |-> IF lands THEN TRUE ELSE grounded1,
         height |-> height]

NoReport == [sent |-> FALSE]

\* a report on every frame
positionReportUnthrottled(p, t, last) ==
    [sent |-> TRUE, position |-> p.position, rotation |-> p.rotation]

\* the throttled onPositionUpdate call of updatePlayer at time t
positionReport(p, t, last) ==
    IF t - last > ReportInterval
    THEN [sent |-> TRUE, position |-> p.position, rotation |-> p.rotation]
    ELSE NoReport

----------------------------------------------------------------------------
(* Projectile simulator: updateBullets *)

\* a collision test that takes a distance of 0 for no measurement
CollidesIfApart(b, q) ==
    /\ b # q
    /\ Abs(b.x - q.x) < HitDistance
    /\ Abs(b.y - q.y) < HitDistance
    /\ Abs(b.z - q.z) < HitDistance
    /\ (b.x - q.x) * (b.x - q.x) + (b.y - q.y) * (b.y - q.y)
         + (b.z - q.z) * (b.z - q.z) < HitDistance * HitDistance

\* bulletPosition.distanceTo(playerPosition) < 0.5; the coordinate tests keep
\* the squares small and follow from the distance test
Collides(b, q) ==
    /\ Abs(b.x - q.x) < HitDistance
    /\ Abs(b.y - q.y) < HitDistance
    /\ Abs(b.z - q.z) < HitDistance
    /\ (b.x - q.x) * (b.x - q.x) + (b.y - q.y) * (b.y - q.y)
         + (b.z - q.z) * (b.z - q.z) < HitDistance * HitDistance

\* Date.now() - bullet.startTime > 5000
Expired(b, t) == t - b.startTime > BulletLifetime

\* a bounds check that forgets the x axis
OutOfBoundsIgnoringX(q) ==
    \/ Abs(q.z) > BulletBound
    \/ q.y < 0
    \/ q.y > BulletCeiling

\* the bounds check on the advanced position
OutOfBounds(q) ==
    \/ Abs(q.x) > BulletBound
    \/ Abs(q.z) > BulletBound
    \/ q.y < 0
    \/ q.y > BulletCeiling

\* bullet.mesh.position.add(bullet.velocity.clone().multiplyScalar(deltaTime))
Advance(b, dt) == [b EXCEPT !.position = AddScaled(b.position, b.velocity, dt)]

\* the players a projectile is tested against: every entry of the map but
\* the one keyed by currentPlayerId
Targets(ps, cur) == {pid \in DOMAIN ps : pid # cur}

\* the onHit calls of one updateBullets pass
hitEvents(bs, ps, cur, dt) ==
    {h \in (DOMAIN bs) \X Targets(ps, cur) :
        Collides(Advance(bs[h[1]], dt).position, ps[h[2]].position)}

\* bulletsToRemove of one updateBullets pass
bulletsToRemove(bs, ps, cur, t, dt) ==
    {id \in DOMAIN bs :
        \/ Expired(bs[id], t)
        \/ OutOfBounds(Advance(bs[id], dt).position)
        \/ \E pid \in Targets(ps, cur) :
              Collides(Advance(bs[id], dt).position, ps[pid].position)}

\* this.bullets after updateBullets(dt) at time t
updateBullets(bs, ps, cur, t, dt) ==
    [id \in (DOMAIN bs) \ bulletsToRemove(bs, ps, cur, t, dt) |-> Advance(bs[id], dt)]

----------------------------------------------------------------------------
(* Remote state reconciler: updateGameState *)

Empty == [id \in {} |-> 0]

\* function f with key k set to v (Map.set)
MapSet(f, k, v) == [i \in (DOMAIN f) \cup {k} |-> IF i = k THEN v ELSE f[i]]

\* function f without key k (Map.delete)
MapDelete(f, k) == [i \in (DOMAIN f) \ {k} |-> f[i]]

\* number of meshes the scene holds for handle k
Meshes(sc, k) == IF k \in DOMAIN sc THEN sc[k] ELSE 0

\* scene.add(mesh) / scene.remove(mesh) for handle k
SceneAdd(sc, k) == MapSet(sc, k, Meshes(sc, k) + 1)
SceneRemove(sc, k) ==
    IF Meshes(sc, k) <= 1 THEN MapDelete(sc, k) ELSE MapSet(sc, k, sc[k] - 1)

\* an iteration that builds a mesh for every listed player, known or not
reconcilePlayerAlwaysCreating(st, rec, cur) ==
    IF rec.id = cur THEN st
    ELSE [players |-> MapSet(st.players, rec.id,
                             [position |-> rec.position, alive |-> rec.isAlive]),
          scene |-> SceneAdd(st.scene, rec.id)]

\* an iteration that does not skip the current player
reconcilePlayerWithoutSkip(st, rec, cur) ==
    LET known == rec.id \in DOMAIN st.players
        sc == IF known THEN st.scene ELSE SceneAdd(st.scene, rec.id)
    IN  [players |-> MapSet(st.players, rec.id,
                            [position |-> rec.position, alive |-> rec.isAlive]),
         scene |-> sc]

\* one iteration of gameState.players.forEach: st = [players, scene]
reconcilePlayer(st, rec, cur) ==
    IF rec.id = cur THEN st
    ELSE LET known == rec.id \in DOMAIN st.players
             sc == IF known THEN st.scene ELSE SceneAdd(st.scene, rec.id)
         IN  [players |-> MapSet(st.players, rec.id,
                                 [position |-> rec.position, alive |-> rec.isAlive]),
              scene |-> sc]

RECURSIVE reconcilePlayers(_, _, _)
reconcilePlayers(st, list, cur) ==
    IF list = <<>> THEN st
    ELSE reconcilePlayers(reconcilePlayer(st, Head(list), cur), Tail(list), cur)

Listed(list) == {list[i].id : i \in DOMAIN list}

\* the "remove disconnected players" loop
RECURSIVE removeDisconnected(_, _, _)
removeDisconnected(st, ids, listed) ==
    IF ids = {} THEN st
    ELSE LET id == CHOOSE i \in ids : TRUE
             st1 == IF id \in listed THEN st
                    ELSE [players |-> MapDelete(st.players, id),
                          scene |-> SceneRemove(st.scene, id)]
         IN  removeDisconnected(st1, ids \ {id}, listed)

\* an iteration that resets a bullet it already knows from the record
reconcileBulletOverwriting(st, rec) ==
    [bullets |-> MapSet(st.bullets, rec.id,
                    [position |-> rec.startPosition,
                     velocity |-> Vec(rec.direction.x * rec.speed,
                                      rec.direction.y * rec.speed,
                                      rec.direction.z * rec.speed),
                     startTime |-> rec.timestamp]),
     scene |-> IF rec.id \in DOMAIN st.bullets THEN st.scene
               ELSE SceneAdd(st.scene, rec.id)]

\* one iteration of gameState.bullets.forEach: st = [bullets, scene]
reconcileBullet(st, rec) ==
    IF rec.id \in DOMAIN st.bullets THEN st
    ELSE [bullets |-> MapSet(st.bullets, rec.id,
                        [position |-> rec.startPosition,
                         velocity |-> Vec(rec.direction.x * rec.speed,
                                          rec.direction.y * rec.speed,
                                          rec.direction.z * rec.speed),
                         startTime |-> rec.timestamp]),
          scene |-> SceneAdd(st.scene, rec.id)]

RECURSIVE reconcileBullets(_, _)
reconcileBullets(st, list) ==
    IF list = <<>> THEN st
    ELSE reconcileBullets(reconcileBullet(st, Head(list)), Tail(list))

----------------------------------------------------------------------------
(* Inputs *)

\* player ids in the order getGameState lists them (by creation)
IdOrder == <<"p1", "p2", "p3">>
PlayerIds == {IdOrder[i] : i \in DOMAIN IdOrder}

\* the playerId prop of the Game component
SessionIds == {"p1"}

\* bullet ids in the order getGameState lists them
BulletOrder == <<"b1">>
BulletIds == {BulletOrder[i] : i \in DOMAIN BulletOrder}

\* where the players stand and whether they live, at two moments of a game:
\* p2 and p3 are 0.3 apart in the first and both have moved in the second
PlayerPoses ==
    {[p \in PlayerIds |->
        CASE p = "p1" -> [position |-> Vec(0, 1000, 0), isAlive |-> TRUE]
          [] p = "p2" -> [position |-> Vec(0, 1000, 0), isAlive |-> TRUE]
          [] OTHER    -> [position |-> Vec(300, 1000, 0), isAlive |-> FALSE]],
     [p \in PlayerIds |->
        CASE p = "p1" -> [position |-> Vec(10000, 1000, 10000), isAlive |-> FALSE]
          [] p = "p2" -> [position |-> Vec(300, 1000, 0), isAlive |-> FALSE]
          [] OTHER    -> [position |-> Vec(10000, 1000, 10000), isAlive |-> TRUE]]}

\* what a snapshot says of a listed bullet; age is Date.now() of the client
\* minus the record's timestamp, direction is in 1/1000
BulletShapes ==
    {[startPosition |-> Vec(-10000, 1000, 0), direction |-> Vec(1000, 0, 0), age |-> 0],
     [startPosition |-> Vec(0, 1000, 0), direction |-> Vec(0, 0, 0), age |-> 0],
     [startPosition |-> Vec(0, 1000, 0), direction |-> Vec(0, 0, 0), age |-> 2000]}

\* elapsed times between two frames, in ms
DeltaTimes == {100, 2000, 3000}

\* elapsed times of the motion specification: a frame and a suspended tab
MotionDeltaTimes == {100, 7000}

\* the sub-sequence of order whose elements are in S
Ordered(order, S) == SelectSeq(order, LAMBDA i : i \in S)

PlayerLists ==
    UNION {{[k \in DOMAIN Ordered(IdOrder, S) |->
               [id |-> Ordered(IdOrder, S)[k],
                position |-> f[Ordered(IdOrder, S)[k]].position,
                isAlive |-> f[Ordered(IdOrder, S)[k]].isAlive]]
            : f \in PlayerPoses} : S \in SUBSET PlayerIds}

BulletLists(t) ==
    UNION {{[k \in DOMAIN Ordered(BulletOrder, S) |->
               [id |-> Ordered(BulletOrder, S)[k],
                startPosition |-> f[Ordered(BulletOrder, S)[k]].startPosition,
                direction |-> f[Ordered(BulletOrder, S)[k]].direction,
                speed |-> BulletSpeed,
                timestamp |-> t - f[Ordered(BulletOrder, S)[k]].age]]
            : f \in [S -> BulletShapes]} : S \in SUBSET BulletIds}

\* the snapshots getGameState can deliver at time t
Snapshots(t) == {[players |-> pl, bullets |-> bl] : pl \in PlayerLists, bl \in BulletLists(t)}

NoSnapshot == [players |-> <<>>, bullets |-> <<>>]

NoMouseEvent == [type |-> "none"]

\* the authority's tables before any game: no player, no bullet, no kill;
\* joined and issued count the ids handed out so far
EmptyDb == [players |-> Empty, bullets |-> Empty, kills |-> <<>>,
            joined |-> 0, issued |-> 0]

\* the null a mutation returns
Null == [null |-> TRUE]

NoRequest == [mutation |-> "none"]

----------------------------------------------------------------------------
(* State after new GameEngine(canvas, callbacks) *)

Init ==
    /\ now = 0
    /\ currentPlayerId = ""
    /\ isRunning = FALSE
    /\ lastUpdateTime = 0
    /\ player = InitialPlayer
    /\ controls = NoControls
    /\ players = Empty
    /\ bullets = Empty
    /\ scene = Empty
    /\ gameState = NoSnapshot
    /\ deltaTime = 0
    /\ hits = {}
    /\ report = NoReport
    /\ lastOp = "new"
    /\ destroyed = {}
    /\ instantiated = Empty
    /\ reconciledAs = {}
    /\ ticks = 0
    /\ snapshots = 0
    /\ camera = [position |-> InitialPlayer.position, rotation |-> [x |-> 0, y |-> 0]]
    /\ pointerLock = FALSE
    /\ mouseEvent = NoMouseEvent
    /\ shots = <<>>
    /\ flashes = 0
    /\ listening = TRUE
    /\ rafPending = FALSE
    /\ disposed = FALSE
    /\ reportedAt = 0
    /\ gameEngineRef = "null"
    /\ isEngineReady = FALSE
    /\ alerted = FALSE
    /\ db = EmptyDb
    /\ request = NoRequest
    /\ result = Null
    /\ applied = Empty
    /\ outbox = {}

----------------------------------------------------------------------------
(* Operations *)

\* setCurrentPlayerId(playerId)
setCurrentPlayerId(id) ==
    /\ currentPlayerId' = id
    /\ lastOp' = "setCurrentPlayerId"
    /\ hits' = {}
    /\ report' = NoReport
    /\ UNCHANGED <<now, isRunning, lastUpdateTime, player, controls, players,
                   bullets, scene, gameState, deltaTime, destroyed, instantiated,
                   reconciledAs>>
    /\ UNCHANGED <<camera, listening, rafPending, disposed, reportedAt>>
    /\ UNCHANGED <<pointer, authority>>

\* the body of animate() at time t with clock.getDelta() = dt:
\* updatePlayer(dt) then updateBullets(dt); the engine that
\* createSimplifiedEngine returns has an empty updateBullets
Frame(t, dt, last) ==
    LET p == updatePlayer(player, controls, dt)
        r == positionReport(p, t, last)
        gone == IF gameEngineRef = "simplified" THEN {}
                ELSE bulletsToRemove(bullets, players, currentPlayerId, t, dt)
    IN  /\ player' = p
        /\ camera' = [position |-> p.position, rotation |-> p.rotation]
        /\ report' = r
        /\ lastUpdateTime' = IF r.sent THEN t ELSE last
        /\ deltaTime' = dt
        /\ hits' = IF gameEngineRef = "simplified" THEN {}
                   ELSE hitEvents(bullets, players, currentPlayerId, dt)
        /\ bullets' = IF gameEngineRef = "simplified" THEN bullets
                      ELSE updateBullets(bullets, players, currentPlayerId, t, dt)
        /\ destroyed' = destroyed \cup gone
        /\ scene' = [k \in (DOMAIN scene) \ gone |-> scene[k]]

\* start(): the first animate() runs inside it, and a fresh THREE.Clock
\* returns 0 from its first getDelta()
start ==
    /\ ~isRunning
    /\ isRunning' = TRUE
    /\ Frame(now, 0, now)
    /\ rafPending' = TRUE
    /\ reportedAt' = now
    /\ lastOp' = "start"
    /\ UNCHANGED <<now, currentPlayerId, controls, players, gameState,
                   instantiated, reconciledAs>>
    /\ UNCHANGED <<listening, disposed, pointer, authority>>

\* animate(), called back by requestAnimationFrame dt ms after the last
\* frame: it returns at once when the engine is not running, and otherwise
\* schedules the next callback and runs the frame
animate(dt) ==
    /\ rafPending
    /\ now' = now + dt
    /\ IF isRunning
       THEN /\ Frame(now + dt, dt, lastUpdateTime)
            /\ reportedAt' = IF report'.sent THEN now' ELSE reportedAt
            /\ lastOp' = "animate"
            /\ UNCHANGED rafPending
       ELSE /\ rafPending' = FALSE
            /\ lastOp' = "animateReturn"
            /\ hits' = {}
            /\ report' = NoReport
            /\ UNCHANGED <<player, camera, lastUpdateTime, deltaTime, bullets,
                           destroyed, scene, reportedAt>>
    /\ UNCHANGED <<currentPlayerId, isRunning, controls, players, gameState,
                   instantiated, reconciledAs>>
    /\ UNCHANGED <<listening, disposed, pointer, authority>>

\* a player record whose position can be read, a bullet record whose start
\* position and direction can be read
HasPosition(rec) == "position" \in DOMAIN rec
HasStart(rec) == "startPosition" \in DOMAIN rec /\ "direction" \in DOMAIN rec

\* the index of the first FALSE of a sequence of booleans, or 0
FirstFalse(oks) ==
    IF \A i \in DOMAIN oks : oks[i] THEN 0
    ELSE CHOOSE i \in DOMAIN oks :
            /\ ~oks[i]
            /\ \A j \in 1..(i - 1) : oks[j]

\* the iteration for a player record without a position, up to the
\* TypeError of player.position.x: a player not yet known has its mesh
\* made, added to the scene and registered, and the mesh is still at the
\* origin; a known player is left as it is
registerUnplaced(st, rec) ==
    IF rec.id \in DOMAIN st.players THEN st
    ELSE [players |-> MapSet(st.players, rec.id,
                             [position |-> Vec(0, 0, 0), alive |-> rec.isAlive]),
          scene |-> SceneAdd(st.scene, rec.id)]

\* the maps and the scene when updateGameState(gs) is over: it runs to its
\* end, or to the first record that makes it throw, which is a player other
\* than the current one without a position or a bullet not yet known
\* without a start position or direction
reconciled(gs, ps, bs, sc, cur) ==
    LET Readable(rec) == rec.id = cur \/ HasPosition(rec)
        Instantiable(rec) == rec.id \in DOMAIN bs \/ HasStart(rec)
        badP == FirstFalse([i \in DOMAIN gs.players |-> Readable(gs.players[i])])
        badB == FirstFalse([i \in DOMAIN gs.bullets |-> Instantiable(gs.bullets[i])])
        st0 == [players |-> ps, scene |-> sc]
        st1 == IF badP = 0
               THEN reconcilePlayers(st0, gs.players, cur)
               ELSE registerUnplaced(
                       reconcilePlayers(st0, SubSeq(gs.players, 1, badP - 1), cur),
                       gs.players[badP])
        st2 == IF badP = 0
               THEN removeDisconnected(st1, DOMAIN st1.players, Listed(gs.players))
               ELSE st1
        st3 == IF badP # 0 THEN [bullets |-> bs, scene |-> st2.scene]
               ELSE reconcileBullets([bullets |-> bs, scene |-> st2.scene],
                                     IF badB = 0 THEN gs.bullets
                                     ELSE SubSeq(gs.bullets, 1, badB - 1))
    IN  [players |-> st2.players, bullets |-> st3.bullets, scene |-> st3.scene]

\* what updateGameState(gameState) does to the maps and the scene
reconcile(gs) ==
    LET st3 == reconciled(gs, players, bullets, scene, currentPlayerId)
        fresh == {i \in DOMAIN gs.bullets :
                     /\ gs.bullets[i].id \notin DOMAIN bullets
                     /\ gs.bullets[i].id \in DOMAIN st3.bullets}
    IN  /\ players' = st3.players
        /\ bullets' = st3.bullets
        /\ scene' = st3.scene
        /\ gameState' = gs
        /\ instantiated' =
              [id \in (DOMAIN instantiated) \cup {gs.bullets[i].id : i \in fresh} |->
                 IF \E i \in fresh : gs.bullets[i].id = id
                 THEN [at |-> now,
                       timestamp |-> (CHOOSE r \in {gs.bullets[i] : i \in fresh} : r.id = id).timestamp]
                 ELSE instantiated[id]]
        /\ reconciledAs' = reconciledAs \cup {currentPlayerId}
        /\ lastOp' = "updateGameState"
        /\ hits' = {}
        /\ report' = NoReport

\* a reconciler that takes the local player's position from the snapshot
updateGameStateOverwritingLocal(gs) ==
    /\ reconcile(gs)
    /\ player' = IF \E i \in DOMAIN gs.players : gs.players[i].id = currentPlayerId
                 THEN [player EXCEPT !.position =
                         (CHOOSE r \in {gs.players[i] : i \in DOMAIN gs.players} :
                             r.id = currentPlayerId).position]
                 ELSE player
    /\ UNCHANGED <<now, currentPlayerId, isRunning, lastUpdateTime,
                   controls, deltaTime, destroyed>>
    /\ UNCHANGED <<camera, listening, rafPending, disposed, reportedAt>>
    /\ UNCHANGED <<pointer, authority>>

\* updateGameState(gameState); the engine that createSimplifiedEngine
\* returns has an empty updateGameState
updateGameState(gs) ==
    /\ IF gameEngineRef = "simplified"
       THEN /\ gameState' = gs
            /\ lastOp' = "updateGameState"
            /\ hits' = {}
            /\ report' = NoReport
            /\ UNCHANGED <<players, bullets, scene, instantiated, reconciledAs>>
       ELSE reconcile(gs)
    /\ UNCHANGED <<now, currentPlayerId, isRunning, lastUpdateTime, player,
                   controls, deltaTime, destroyed>>
    /\ UNCHANGED <<camera, listening, rafPending, disposed, reportedAt>>
    /\ UNCHANGED <<pointer, authority>>

\* onKeyDown(event) / onKeyUp(event)
onKeyDown(code) ==
    /\ controls' = [controls EXCEPT ![ControlOf(code)] = TRUE]
    /\ lastOp' = "onKeyDown"
    /\ hits' = {}
    /\ report' = NoReport
    /\ UNCHANGED <<now, currentPlayerId, isRunning, lastUpdateTime, player, players,
                   bullets, scene, gameState, deltaTime, destroyed, instantiated,
                   reconciledAs>>
    /\ UNCHANGED <<camera, listening, rafPending, disposed, reportedAt>>
    /\ UNCHANGED <<pointer, authority>>

onKeyUp(code) ==
    /\ controls' = [controls EXCEPT ![ControlOf(code)] = FALSE]
    /\ lastOp' = "onKeyUp"
    /\ hits' = {}
    /\ report' = NoReport
    /\ UNCHANGED <<now, currentPlayerId, isRunning, lastUpdateTime, player, players,
                   bullets, scene, gameState, deltaTime, destroyed, instantiated,
                   reconciledAs>>
    /\ UNCHANGED <<camera, listening, rafPending, disposed, reportedAt>>
    /\ UNCHANGED <<pointer, authority>>

\* the click listener of the canvas, requestPointerLock(): the browser gives
\* the canvas the pointer lock
requestPointerLock ==
    /\ pointerLock' = TRUE
    /\ mouseEvent' = [type |-> "click"]
    /\ lastOp' = "requestPointerLock"
    /\ hits' = {}
    /\ report' = NoReport
    /\ UNCHANGED <<now, currentPlayerId, isRunning, lastUpdateTime, player, controls,
                   players, bullets, scene, gameState, deltaTime, destroyed,
                   instantiated, reconciledAs>>
    /\ UNCHANGED <<camera, listening, rafPending, disposed, reportedAt>>
    /\ UNCHANGED <<shots, flashes, authority>>

\* the browser takes the pointer lock away (Esc); onPointerLockChange() has
\* an empty body
onPointerLockChange ==
    /\ pointerLock' = FALSE
    /\ lastOp' = "onPointerLockChange"
    /\ hits' = {}
    /\ report' = NoReport
    /\ UNCHANGED <<now, currentPlayerId, isRunning, lastUpdateTime, player, controls,
                   players, bullets, scene, gameState, deltaTime, destroyed,
                   instantiated, reconciledAs>>
    /\ UNCHANGED <<camera, listening, rafPending, disposed, reportedAt>>
    /\ UNCHANGED <<mouseEvent, shots, flashes, authority>>

\* onMouseMove(event): mouse.x and mouse.y are the yaw and the pitch of
\* player.rotation, which is written nowhere else
onMouseMove(mx, my) ==
    /\ player' = IF pointerLock
                 THEN [player EXCEPT !.rotation =
                         [x |-> Max(-QuarterTurn,
                                    Min(QuarterTurn, player.rotation.x + my * MouseSensitivity)),
                          y |-> player.rotation.y + mx * MouseSensitivity]]
                 ELSE player
    /\ mouseEvent' = [type |-> "mousemove", movementX |-> mx, movementY |-> my]
    /\ lastOp' = "onMouseMove"
    /\ hits' = {}
    /\ report' = NoReport
    /\ UNCHANGED <<now, currentPlayerId, isRunning, lastUpdateTime, controls,
                   players, bullets, scene, gameState, deltaTime, destroyed,
                   instantiated, reconciledAs>>
    /\ UNCHANGED <<camera, listening, rafPending, disposed, reportedAt>>
    /\ UNCHANGED <<pointerLock, shots, flashes, authority>>

\* the onShoot call of shoot(): the start position is 0.1 above the player
\* and the direction is that of the camera, given here by its rotation
shot == [startPosition |-> Vec(player.position.x,
                               player.position.y + MuzzleHeight,
                               player.position.z),
         view |-> camera.rotation]

\* a handler that shoots on every button
onMouseDownAnyButton(button) ==
    /\ IF pointerLock
       THEN /\ shots' = Append(shots, shot)
            /\ flashes' = flashes + 1
            /\ scene' = SceneAdd(scene, "flash")
       ELSE UNCHANGED <<shots, flashes, scene>>
    /\ mouseEvent' = [type |-> "mousedown", button |-> button]
    /\ lastOp' = "onMouseDown"
    /\ hits' = {}
    /\ report' = NoReport
    /\ UNCHANGED <<now, currentPlayerId, isRunning, lastUpdateTime, player, controls,
                   players, bullets, gameState, deltaTime, destroyed,
                   instantiated, reconciledAs>>
    /\ UNCHANGED <<camera, listening, rafPending, disposed, reportedAt>>
    /\ UNCHANGED <<pointerLock, authority>>

\* onMouseDown(event), with shoot() and createMuzzleFlash()
onMouseDown(button) ==
    /\ IF pointerLock /\ button = 0
       THEN /\ shots' = Append(shots, shot)
            /\ flashes' = flashes + 1
            /\ scene' = SceneAdd(scene, "flash")
       ELSE UNCHANGED <<shots, flashes, scene>>
    /\ mouseEvent' = [type |-> "mousedown", button |-> button]
    /\ lastOp' = "onMouseDown"
    /\ hits' = {}
    /\ report' = NoReport
    /\ UNCHANGED <<now, currentPlayerId, isRunning, lastUpdateTime, player, controls,
                   players, bullets, gameState, deltaTime, destroyed,
                   instantiated, reconciledAs>>
    /\ UNCHANGED <<camera, listening, rafPending, disposed, reportedAt>>
    /\ UNCHANGED <<pointerLock, authority>>

\* the timeout of createMuzzleFlash: scene.remove(flash)
flashTimeout ==
    /\ flashes > 0
    /\ flashes' = flashes - 1
    /\ scene' = SceneRemove(scene, "flash")
    /\ lastOp' = "flashTimeout"
    /\ hits' = {}
    /\ report' = NoReport
    /\ UNCHANGED <<now, currentPlayerId, isRunning, lastUpdateTime, player, controls,
                   players, bullets, gameState, deltaTime, destroyed,
                   instantiated, reconciledAs>>
    /\ UNCHANGED <<camera, listening, rafPending, disposed, reportedAt>>
    /\ UNCHANGED <<pointerLock, mouseEvent, shots, authority>>

\* a dispose() that leaves the listeners attached
disposeKeepingListeners ==
    /\ isRunning' = FALSE
    /\ scene' = Empty
    /\ disposed' = TRUE
    /\ lastOp' = "dispose"
    /\ hits' = {}
    /\ report' = NoReport
    /\ UNCHANGED <<now, currentPlayerId, lastUpdateTime, player, controls,
                   players, bullets, gameState, deltaTime, destroyed,
                   instantiated, reconciledAs>>
    /\ UNCHANGED <<camera, listening, rafPending, reportedAt>>
    /\ UNCHANGED <<pointer, authority>>

\* dispose(): the frame callback that is scheduled stays scheduled
dispose ==
    /\ isRunning' = FALSE
    /\ scene' = Empty
    /\ listening' = FALSE
    /\ disposed' = TRUE
    /\ lastOp' = "dispose"
    /\ hits' = {}
    /\ report' = NoReport
    /\ UNCHANGED <<now, currentPlayerId, lastUpdateTime, player, controls,
                   players, bullets, gameState, deltaTime, destroyed,
                   instantiated, reconciledAs>>
    /\ UNCHANGED <<camera, rafPending, reportedAt>>
    /\ UNCHANGED <<pointer, authority>>

----------------------------------------------------------------------------
(* The session as Game.tsx drives it: new GameEngine, setCurrentPlayerId,   *)
(* start, and from then on frames and snapshots in any interleaving         *)

Identify == \E id \in SessionIds :
    /\ lastOp = "new"
    /\ setCurrentPlayerId(id)
    /\ gameEngineRef' = "full"
    /\ UNCHANGED <<ticks, snapshots, isEngineReady, alerted, outbox>>

Start ==
    /\ lastOp = "setCurrentPlayerId"
    /\ start
    /\ isEngineReady' = TRUE
    /\ UNCHANGED <<ticks, snapshots, gameEngineRef, alerted, outbox>>

Tick == \E dt \in DeltaTimes :
    /\ ticks < MaxTicks
    /\ animate(dt)
    /\ ticks' = ticks + 1
    /\ UNCHANGED <<snapshots, component, outbox>>

Snapshot == \E gs \in Snapshots(now) :
    /\ isRunning
    /\ snapshots < MaxSnapshots
    /\ updateGameState(gs)
    /\ snapshots' = snapshots + 1
    /\ UNCHANGED <<ticks, component, outbox>>

Next == Identify \/ Start \/ Tick \/ Snapshot

Spec == Init /\ [][Next]_vars

----------------------------------------------------------------------------
(* The same session with the keyboard: key events and frames in any         *)
(* interleaving, and snapshots that list every player and no bullet         *)

MotionSnapshots ==
    {[players |-> pl, bullets |-> <<>>] : pl \in {l \in PlayerLists : Len(l) = Len(IdOrder)}}

\* the keys the player presses
MotionKeys == {"KeyW", "ShiftLeft", "Space", "ControlLeft"}

KeyDown == \E code \in MotionKeys :
    /\ isRunning
    /\ ~controls[ControlOf(code)]
    /\ onKeyDown(code)
    /\ UNCHANGED <<ticks, snapshots, component, outbox>>

KeyUp == \E code \in MotionKeys :
    /\ isRunning
    /\ controls[ControlOf(code)]
    /\ onKeyUp(code)
    /\ UNCHANGED <<ticks, snapshots, component, outbox>>

MotionTick == \E dt \in MotionDeltaTimes :
    /\ ticks < MaxMotionTicks
    /\ animate(dt)
    /\ ticks' = ticks + 1
    /\ UNCHANGED <<snapshots, component, outbox>>

MotionSnapshot == \E gs \in MotionSnapshots :
    /\ isRunning
    /\ updateGameState(gs)
    /\ UNCHANGED <<ticks, snapshots, component, outbox>>

NextMotion == Identify \/ Start \/ KeyDown \/ KeyUp \/ MotionTick \/ MotionSnapshot

SpecMotion == Init /\ [][NextMotion]_vars

----------------------------------------------------------------------------
(* The engine driven through its public methods in any order: the current   *)
(* player id may be set, and snapshots may arrive, at any time              *)

AnySetId == \E id \in SessionIds :
    /\ currentPlayerId # id
    /\ setCurrentPlayerId(id)
    /\ UNCHANGED <<ticks, snapshots, component, outbox>>

AnyStart ==
    /\ start
    /\ UNCHANGED <<ticks, snapshots, component, outbox>>

\* snapshots that list every player or none
FullSnapshots(t) ==
    {gs \in Snapshots(t) : Len(gs.players) \in {0, Len(IdOrder)}}

AnySnapshot == \E gs \in FullSnapshots(now) :
    /\ snapshots < MaxSnapshots
    /\ updateGameState(gs)
    /\ snapshots' = snapshots + 1
    /\ UNCHANGED <<ticks, component, outbox>>

NextAnyOrder == AnySetId \/ AnyStart \/ Tick \/ AnySnapshot

SpecAnyOrder == Init /\ [][NextAnyOrder]_vars

----------------------------------------------------------------------------
(* The session at display rate: frames 16, 34 or 100 ms apart *)

FrameDeltaTimes == {16, 34, 100}

FrameTick == \E dt \in FrameDeltaTimes :
    /\ ticks < MaxFrames
    /\ animate(dt)
    /\ ticks' = ticks + 1
    /\ UNCHANGED <<snapshots, component, outbox>>

NextFrames == Identify \/ Start \/ FrameTick

SpecFrames == Init /\ [][NextFrames]_vars

----------------------------------------------------------------------------
(* The session with the mouse, the Space key and its end: the browser calls *)
(* a listener only while it is attached; leaving the game disposes the      *)
(* engine and unmounting the component disposes it and drops the reference  *)

Buttons == {0, 2}
MouseMoves == {[x |-> 400, y |-> 0], [x |-> 0, y |-> 900]}
InputKeys == {"Space"}
InputDeltaTimes == {100}

Click ==
    /\ listening
    /\ ~pointerLock
    /\ requestPointerLock
    /\ UNCHANGED <<ticks, snapshots, component, outbox>>

PointerLockLost ==
    /\ pointerLock
    /\ onPointerLockChange
    /\ UNCHANGED <<ticks, snapshots, component, outbox>>

MouseMove == \E m \in MouseMoves :
    /\ listening
    /\ Abs(player.rotation.y + m.x * MouseSensitivity) <= MaxYaw
    /\ onMouseMove(m.x, m.y)
    /\ UNCHANGED <<ticks, snapshots, component, outbox>>

MouseDown == \E button \in Buttons :
    /\ listening
    /\ Len(shots) < MaxShots
    /\ onMouseDown(button)
    /\ UNCHANGED <<ticks, snapshots, component, outbox>>

InputKeyDown == \E code \in InputKeys :
    /\ listening
    /\ ~controls[ControlOf(code)]
    /\ onKeyDown(code)
    /\ UNCHANGED <<ticks, snapshots, component, outbox>>

InputKeyUp == \E code \in InputKeys :
    /\ listening
    /\ controls[ControlOf(code)]
    /\ onKeyUp(code)
    /\ UNCHANGED <<ticks, snapshots, component, outbox>>

InputTick == \E dt \in InputDeltaTimes :
    /\ ticks < MaxInputTicks
    /\ animate(dt)
    /\ ticks' = ticks + 1
    /\ UNCHANGED <<snapshots, component, outbox>>

FlashTimeout ==
    /\ flashTimeout
    /\ UNCHANGED <<ticks, snapshots, component, outbox>>

\* handleLeaveGame
LeaveGame ==
    /\ gameEngineRef # "null"
    /\ ~disposed
    /\ dispose
    /\ UNCHANGED <<ticks, snapshots, component, outbox>>

\* the cleanup of the engine effect
Unmount ==
    /\ gameEngineRef # "null"
    /\ dispose
    /\ gameEngineRef' = "null"
    /\ UNCHANGED <<ticks, snapshots, isEngineReady, alerted, outbox>>

NextInput ==
    \/ Identify \/ Start \/ Click \/ PointerLockLost \/ MouseMove \/ MouseDown
    \/ InputKeyDown \/ InputKeyUp \/ InputTick \/ FlashTimeout \/ LeaveGame \/ Unmount

SpecInput == Init /\ [][NextInput]_vars

----------------------------------------------------------------------------
(* The engine effect of Game.tsx as one step, initializeEngine(), in a      *)
(* browser where WebGL may be missing and where the renderer may throw in   *)
(* the first frame                                                          *)

\* the message of the error the constructor throws without WebGL
NoWebGL == "WebGL is not supported by your browser and no fallback renderer is available"

\* what new GameEngine(canvas, callbacks) throws
constructorThrows(webgl) == IF webgl THEN "nothing" ELSE NoWebGL

\* what start() throws when its first frame fails: animate() catches the
\* error of the frame itself and clears isRunning, so start() sees none
startThrows(renderOK) == "nothing"

\* the test of the catch block of initializeEngine
needsFallback(useSimplifiedVersion, message) ==
    ~useSimplifiedVersion /\ message = "ENGINE_NEEDS_FALLBACK"

\* the try block of initializeEngine for one kind of engine, the full one
\* or the one of createSimplifiedEngine, which runs the same constructor:
\* new GameEngine, setCurrentPlayerId, start
tryEngine(kind, id, renderOK) ==
    /\ currentPlayerId' = id
    /\ gameEngineRef' = kind
    /\ isRunning' = renderOK
    /\ Frame(now, 0, now)
    /\ rafPending' = TRUE
    /\ reportedAt' = now
    /\ isEngineReady' = TRUE
    /\ lastOp' = "start"
    /\ UNCHANGED <<now, controls, players, gameState, instantiated, reconciledAs>>
    /\ UNCHANGED <<listening, disposed, pointer, authority, alerted, outbox>>

\* the end of the catch block: the alert
alertFailure ==
    /\ alerted' = TRUE
    /\ isEngineReady' = TRUE
    /\ lastOp' = "initializeEngine"
    /\ hits' = {}
    /\ report' = NoReport
    /\ UNCHANGED <<now, currentPlayerId, isRunning, lastUpdateTime, player, controls,
                   players, bullets, scene, gameState, deltaTime, destroyed,
                   instantiated, reconciledAs>>
    /\ UNCHANGED <<camera, listening, rafPending, disposed, reportedAt>>
    /\ UNCHANGED <<pointer, authority, gameEngineRef, outbox>>

\* initializeEngine()
initializeEngine(id, webgl, renderOK) ==
    LET thrown == IF constructorThrows(webgl) # "nothing"
                  THEN constructorThrows(webgl)
                  ELSE startThrows(renderOK)
    IN  IF thrown = "nothing"
        THEN tryEngine("full", id, renderOK)
        ELSE IF needsFallback(FALSE, thrown)
             THEN IF constructorThrows(webgl) = "nothing" /\ startThrows(renderOK) = "nothing"
                  THEN tryEngine("simplified", id, renderOK)
                  ELSE alertFailure
             ELSE alertFailure

Initialize == \E id \in SessionIds, webgl \in BOOLEAN, renderOK \in BOOLEAN :
    /\ lastOp = "new"
    /\ initializeEngine(id, webgl, renderOK)
    /\ UNCHANGED <<ticks, snapshots>>

NextInit == Initialize \/ FrameTick

SpecInit == Init /\ [][NextInit]_vars

----------------------------------------------------------------------------
(* The session with snapshots in which one record may lack its position:    *)
(* a player record without position, or a bullet record without             *)
(* startPosition                                                            *)

\* the list with the position of its i-th player record taken away
WithoutPosition(list, i) ==
    [j \in DOMAIN list |->
        IF j = i THEN [id |-> list[j].id, isAlive |-> list[j].isAlive] ELSE list[j]]

\* the players as they stand at the first of the two moments, two or more
\* of them listed, all records whole or one without its position
FaultyPlayerLists ==
    LET whole == {l \in PlayerLists :
                     /\ Len(l) >= 2
                     /\ \A i \in DOMAIN l : l[i].position.x < 10000}
    IN  whole \cup UNION {{WithoutPosition(l, i) : i \in DOMAIN l} : l \in whole}

\* no bullet, the bullet at rest, or its record without start position
FaultyBulletLists(t) ==
    LET whole == {l \in BulletLists(t) :
                     \A i \in DOMAIN l :
                        l[i].direction = Vec(0, 0, 0) /\ l[i].timestamp = t}
    IN  whole \cup {[j \in DOMAIN l |->
                       [id |-> l[j].id, speed |-> l[j].speed, timestamp |-> l[j].timestamp]]
                    : l \in whole}

FaultySnapshots(t) ==
    {[players |-> pl, bullets |-> bl] : pl \in FaultyPlayerLists, bl \in FaultyBulletLists(t)}

FaultySnapshot == \E gs \in FaultySnapshots(now) :
    /\ isRunning
    /\ snapshots < MaxFaultySnapshots
    /\ updateGameState(gs)
    /\ snapshots' = snapshots + 1
    /\ UNCHANGED <<ticks, component, outbox>>

NextFaulty == Identify \/ Start \/ InputTick \/ FaultySnapshot

SpecFaulty == Init /\ [][NextFaulty]_vars

----------------------------------------------------------------------------
(* The authority: the mutations of the game, called in any order by the     *)
(* clients, on the tables players, bullets and kills. A player document may *)
(* also disappear from its table without any of these mutations.            *)

\* the ids the bullets table hands out, in order
AuthorityBulletOrder == <<"b1", "b2", "b3", "b4", "b5">>
AuthorityBulletIds == {AuthorityBulletOrder[i] : i \in DOMAIN AuthorityBulletOrder}

\* where joinGame puts a player, and the spawn points of respawnPlayer
JoinPosition == Vec(0, 1000, 0)
SpawnPositions == {Vec(10000, 1000, 10000), Vec(-10000, 1000, 10000),
                   Vec(10000, 1000, -10000), Vec(-10000, 1000, -10000)}

\* the shots the clients report
ShotReports == {[startPosition |-> Vec(0, 1100, 0), direction |-> Vec(0, 0, -1000)]}

\* an authority step leaves the client as it is
clientIdle ==
    /\ hits' = {}
    /\ report' = NoReport
    /\ UNCHANGED <<now, currentPlayerId, isRunning, lastUpdateTime, player, controls,
                   players, bullets, scene, gameState, deltaTime, destroyed,
                   instantiated, reconciledAs, ticks, snapshots>>
    /\ UNCHANGED <<camera, listening, rafPending, disposed, reportedAt>>
    /\ UNCHANGED <<pointer, component>>

\* joinGame for a user who is not yet in the game
joinGame ==
    LET id == IdOrder[db.joined + 1]
    IN  /\ db.joined < Len(IdOrder)
        /\ db' = [db EXCEPT !.players =
                       MapSet(db.players, id,
                              [position |-> JoinPosition,
                               rotation |-> [x |-> 0, y |-> 0],
                               health |-> MaxHealth, maxHealth |-> MaxHealth,
                               kills |-> 0, deaths |-> 0, isAlive |-> TRUE,
                               lastUpdate |-> now]),
                    !.joined = db.joined + 1]
        /\ request' = [mutation |-> "joinGame"]
        /\ result' = [id |-> id]
        /\ lastOp' = "joinGame"
        /\ UNCHANGED applied
        /\ clientIdle

\* a shootBullet that does not look at the reporting player
shootBulletForAnyone(playerId, startPosition, direction) ==
    LET id == AuthorityBulletOrder[db.issued + 1]
    IN  /\ db.issued < Len(AuthorityBulletOrder)
        /\ db' = [db EXCEPT !.bullets =
                            MapSet(db.bullets, id,
                                   [playerId |-> playerId,
                                    startPosition |-> startPosition,
                                    direction |-> direction,
                                    speed |-> BulletSpeed,
                                    damage |-> BulletDamage,
                                    timestamp |-> now]),
                         !.issued = db.issued + 1]
        /\ request' = [mutation |-> "shootBullet", playerId |-> playerId,
                       startPosition |-> startPosition, direction |-> direction]
        /\ result' = [id |-> id]
        /\ lastOp' = "shootBullet"
        /\ UNCHANGED applied
        /\ clientIdle

\* shootBullet({playerId, startPosition, direction})
shootBullet(playerId, startPosition, direction) ==
    LET id == AuthorityBulletOrder[db.issued + 1]
        refused == playerId \notin DOMAIN db.players \/ ~db.players[playerId].isAlive
    IN  /\ db.issued < Len(AuthorityBulletOrder)
        /\ db' = IF refused THEN db
                 ELSE [db EXCEPT !.bullets =
                            MapSet(db.bullets, id,
                                   [playerId |-> playerId,
                                    startPosition |-> startPosition,
                                    direction |-> direction,
                                    speed |-> BulletSpeed,
                                    damage |-> BulletDamage,
                                    timestamp |-> now]),
                         !.issued = db.issued + 1]
        /\ request' = [mutation |-> "shootBullet", playerId |-> playerId,
                       startPosition |-> startPosition, direction |-> direction]
        /\ result' = IF refused THEN Null ELSE [id |-> id]
        /\ lastOp' = "shootBullet"
        /\ UNCHANGED applied
        /\ clientIdle

\* tables after a hit that leaves a victim without health alive
applyHitLeavingAlive(d, b, v) ==
    LET bullet == d.bullets[b]
        victim == d.players[v]
        newHealth == Max(0, victim.health - bullet.damage)
    IN  [d EXCEPT
           !.players = [d.players EXCEPT ![v] = [@ EXCEPT !.health = newHealth]],
           !.bullets = MapDelete(d.bullets, b)]

\* tables after a hit that does not count the kill for the shooter
applyHitWithoutKillCount(d, b, v) ==
    LET bullet == d.bullets[b]
        victim == d.players[v]
        newHealth == Max(0, victim.health - bullet.damage)
        isDead == newHealth <= 0
    IN  [d EXCEPT
           !.players = [d.players EXCEPT ![v] =
                           [@ EXCEPT !.health = newHealth,
                                     !.isAlive = ~isDead,
                                     !.deaths = IF isDead THEN victim.deaths + 1
                                                ELSE victim.deaths]],
           !.kills = IF isDead
                     THEN Append(d.kills, [killerId |-> bullet.playerId, victimId |-> v])
                     ELSE d.kills,
           !.bullets = MapDelete(d.bullets, b)]

\* the tables after hitPlayer has applied the hit of bullet b on victim v
applyHit(d, b, v) ==
    LET bullet == d.bullets[b]
        victim == d.players[v]
        shooter == d.players[bullet.playerId]
        newHealth == Max(0, victim.health - bullet.damage)
        isDead == newHealth <= 0
        hurt == [d.players EXCEPT ![v] =
                    [@ EXCEPT !.health = newHealth,
                              !.isAlive = ~isDead,
                              !.deaths = IF isDead THEN victim.deaths + 1
                                         ELSE victim.deaths]]
    IN  [d EXCEPT
           !.players = IF isDead
                       THEN [hurt EXCEPT ![bullet.playerId] =
                                [@ EXCEPT !.kills = shooter.kills + 1]]
                       ELSE hurt,
           !.kills = IF isDead
                     THEN Append(d.kills, [killerId |-> bullet.playerId, victimId |-> v])
                     ELSE d.kills,
           !.bullets = MapDelete(d.bullets, b)]

\* a hitPlayer that removes the bullet of a report it turns down
hitPlayerClearingBullet(bulletId, victimId) ==
    LET refused == \/ bulletId \notin DOMAIN db.bullets
                   \/ victimId \notin DOMAIN db.players
                   \/ db.bullets[bulletId].playerId \notin DOMAIN db.players
                   \/ ~db.players[victimId].isAlive
    IN  /\ db' = IF refused THEN [db EXCEPT !.bullets = MapDelete(db.bullets, bulletId)]
                 ELSE applyHit(db, bulletId, victimId)
        /\ request' = [mutation |-> "hitPlayer", bulletId |-> bulletId,
                       victimId |-> victimId]
        /\ result' = IF refused THEN Null
                     ELSE [hit |-> TRUE,
                           damage |-> db.bullets[bulletId].damage,
                           killed |-> db.players[victimId].health
                                         <= db.bullets[bulletId].damage]
        /\ applied' = IF refused THEN applied
                      ELSE MapSet(applied, bulletId, Meshes(applied, bulletId) + 1)
        /\ lastOp' = "hitPlayer"
        /\ clientIdle

\* a hitPlayer that does not delete the bullet it has applied
hitPlayerKeepingBullet(bulletId, victimId) ==
    LET refused == \/ bulletId \notin DOMAIN db.bullets
                   \/ victimId \notin DOMAIN db.players
                   \/ db.bullets[bulletId].playerId \notin DOMAIN db.players
                   \/ ~db.players[victimId].isAlive
    IN  /\ db' = IF refused THEN db
                 ELSE [applyHit(db, bulletId, victimId) EXCEPT !.bullets = db.bullets]
        /\ request' = [mutation |-> "hitPlayer", bulletId |-> bulletId,
                       victimId |-> victimId]
        /\ result' = IF refused THEN Null
                     ELSE [hit |-> TRUE,
                           damage |-> db.bullets[bulletId].damage,
                           killed |-> db.players[victimId].health
                                         <= db.bullets[bulletId].damage]
        /\ applied' = IF refused THEN applied
                      ELSE MapSet(applied, bulletId, Meshes(applied, bulletId) + 1)
        /\ lastOp' = "hitPlayer"
        /\ clientIdle

\* hitPlayer({bulletId, victimId})
hitPlayer(bulletId, victimId) ==
    LET refused == \/ bulletId \notin DOMAIN db.bullets
                   \/ victimId \notin DOMAIN db.players
                   \/ db.bullets[bulletId].playerId \notin DOMAIN db.players
                   \/ ~db.players[victimId].isAlive
    IN  /\ db' = IF refused THEN db ELSE applyHit(db, bulletId, victimId)
        /\ request' = [mutation |-> "hitPlayer", bulletId |-> bulletId,
                       victimId |-> victimId]
        /\ result' = IF refused THEN Null
                     ELSE [hit |-> TRUE,
                           damage |-> db.bullets[bulletId].damage,
                           killed |-> db.players[victimId].health
                                         <= db.bullets[bulletId].damage]
        /\ applied' = IF refused THEN applied
                      ELSE MapSet(applied, bulletId, Meshes(applied, bulletId) + 1)
        /\ lastOp' = "hitPlayer"
        /\ clientIdle

\* a respawnPlayer that also clears the deaths of the player
respawnPlayerResettingScore(playerId, spawn) ==
    /\ db' = [db EXCEPT !.players[playerId] =
                 [@ EXCEPT !.position = spawn, !.health = MaxHealth, !.isAlive = TRUE,
                           !.deaths = 0, !.lastUpdate = now]]
    /\ request' = [mutation |-> "respawnPlayer", playerId |-> playerId]
    /\ result' = Null
    /\ lastOp' = "respawnPlayer"
    /\ UNCHANGED applied
    /\ clientIdle

\* respawnPlayer({playerId}) with the spawn point Math.random() picks
respawnPlayer(playerId, spawn) ==
    /\ db' = [db EXCEPT !.players[playerId] =
                 [@ EXCEPT !.position = spawn, !.health = MaxHealth, !.isAlive = TRUE,
                           !.lastUpdate = now]]
    /\ request' = [mutation |-> "respawnPlayer", playerId |-> playerId]
    /\ result' = Null
    /\ lastOp' = "respawnPlayer"
    /\ UNCHANGED applied
    /\ clientIdle

\* updatePlayerPosition({playerId, position, rotation})
updatePlayerPosition(playerId, position, rotation) ==
    /\ db' = [db EXCEPT !.players[playerId] =
                 [@ EXCEPT !.position = position, !.rotation = rotation,
                           !.lastUpdate = now]]
    /\ request' = [mutation |-> "updatePlayerPosition", playerId |-> playerId,
                   position |-> position, rotation |-> rotation]
    /\ result' = Null
    /\ lastOp' = "updatePlayerPosition"
    /\ UNCHANGED applied
    /\ clientIdle

\* a player document is deleted from the table
playerDeleted(playerId) ==
    /\ db' = [db EXCEPT !.players = MapDelete(db.players, playerId)]
    /\ request' = NoRequest
    /\ result' = Null
    /\ lastOp' = "playerDeleted"
    /\ UNCHANGED applied
    /\ clientIdle

Join ==
    /\ db.joined < MaxJoined
    /\ joinGame
    /\ UNCHANGED outbox

Shoot == \E playerId \in PlayerIds, s \in ShotReports :
    /\ shootBullet(playerId, s.startPosition, s.direction)
    /\ UNCHANGED outbox

Hit == \E bulletId \in AuthorityBulletIds, victimId \in PlayerIds :
    /\ hitPlayer(bulletId, victimId)
    /\ UNCHANGED outbox

\* Game.tsx offers the respawn to a player who is dead
Respawn == \E playerId \in DOMAIN db.players, spawn \in SpawnPositions :
    /\ ~db.players[playerId].isAlive
    /\ respawnPlayer(playerId, spawn)
    /\ UNCHANGED outbox

Deleted == \E playerId \in DOMAIN db.players :
    /\ playerDeleted(playerId)
    /\ UNCHANGED outbox

NextAuthority == Join \/ Shoot \/ Hit \/ Respawn \/ Deleted

SpecAuthority == Init /\ [][NextAuthority]_vars

----------------------------------------------------------------------------
(* The five mutations the clients call, with any arguments and in any order *)

\* the positions and rotations the clients report
PositionReports == {[position |-> Vec(5000, 900, -3000), rotation |-> [x |-> 0, y |-> 0]]}

RespawnAny == \E playerId \in DOMAIN db.players, spawn \in SpawnPositions :
    /\ respawnPlayer(playerId, spawn)
    /\ UNCHANGED outbox

Move == \E playerId \in DOMAIN db.players, r \in PositionReports :
    /\ updatePlayerPosition(playerId, r.position, r.rotation)
    /\ UNCHANGED outbox

ShootSome == \E playerId \in PlayerIds, s \in ShotReports :
    /\ db.issued < MaxIssued
    /\ shootBullet(playerId, s.startPosition, s.direction)
    /\ UNCHANGED outbox

NextMutations == Join \/ ShootSome \/ Hit \/ RespawnAny \/ Move

SpecMutations == Init /\ [][NextMutations]_vars

----------------------------------------------------------------------------
(* A game end to end: the authority, the client of player p1 with its       *)
(* engine, whose callbacks call the mutations, and the clients of the       *)
(* other players, of which only the mutation calls are seen                 *)

\* what the query getGameState returns of the tables d
getGameState(d) ==
    LET ids == Ordered(IdOrder, DOMAIN d.players)
        bids == Ordered(AuthorityBulletOrder, DOMAIN d.bullets)
    IN  [players |-> [k \in DOMAIN ids |->
                        [id |-> ids[k],
                         position |-> d.players[ids[k]].position,
                         isAlive |-> d.players[ids[k]].isAlive]],
         bullets |-> [k \in DOMAIN bids |->
                        [id |-> bids[k],
                         startPosition |-> d.bullets[bids[k]].startPosition,
                         direction |-> d.bullets[bids[k]].direction,
                         speed |-> d.bullets[bids[k]].speed,
                         timestamp |-> d.bullets[bids[k]].timestamp]]]

\* the mutation calls the callbacks onHit and onPositionUpdate make for the
\* hit events hs and the report r of a frame at time t, as player id
engineCallbacks(id, hs, r, t) ==
    {[mutation |-> "hitPlayer", bulletId |-> h[1], victimId |-> h[2]] : h \in hs}
      \cup (IF r.sent
            THEN {[mutation |-> "updatePlayerPosition", playerId |-> id,
                   position |-> r.position, rotation |-> r.rotation, sentAt |-> t]}
            ELSE {})

\* elapsed times between two frames: a 240 Hz display and a slow frame
GameDeltaTimes == {4, 100}

\* the client of another player: it stands where its engine has put it and
\* fires straight ahead
OtherPosition == InitialPlayer.position
OtherShot == [startPosition |-> Vec(OtherPosition.x, OtherPosition.y + MuzzleHeight,
                                    OtherPosition.z),
              direction |-> Vec(0, 0, -1000)]

\* the Game component is mounted for the player who has joined
Mount == \E id \in SessionIds :
    /\ gameEngineRef = "null"
    /\ id \in DOMAIN db.players
    /\ tryEngine("full", id, TRUE)
    /\ UNCHANGED <<ticks, snapshots>>

GameTick == \E dt \in GameDeltaTimes :
    /\ isRunning
    /\ ticks < MaxGameTicks
    /\ animate(dt)
    /\ ticks' = ticks + 1
    /\ outbox' = outbox \cup engineCallbacks(currentPlayerId, hits', report', now')
    /\ UNCHANGED <<snapshots, component>>

\* the gameState effect with the result of the query
Sync ==
    /\ isRunning
    /\ snapshots < MaxSyncs
    /\ updateGameState(getGameState(db))
    /\ snapshots' = snapshots + 1
    /\ UNCHANGED <<ticks, component, outbox>>

\* a mutation call of the client reaches the authority
Deliver == \E m \in outbox :
    /\ IF m.mutation = "hitPlayer"
       THEN hitPlayer(m.bulletId, m.victimId)
       ELSE /\ m.playerId \in DOMAIN db.players
            /\ updatePlayerPosition(m.playerId, m.position, m.rotation)
    /\ outbox' = outbox \ {m}

OtherMove == \E playerId \in (DOMAIN db.players) \ SessionIds :
    /\ db.players[playerId].position # OtherPosition
    /\ updatePlayerPosition(playerId, OtherPosition, InitialPlayer.rotation)
    /\ UNCHANGED outbox

OtherShoot == \E playerId \in (DOMAIN db.players) \ SessionIds :
    /\ db.issued < MaxIssued
    /\ shootBullet(playerId, OtherShot.startPosition, OtherShot.direction)
    /\ UNCHANGED outbox

NextGame ==
    \/ Join \/ Mount \/ GameTick \/ Sync \/ Deliver \/ OtherMove \/ OtherShoot

SpecGame == Init /\ [][NextGame]_vars

----------------------------------------------------------------------------
(* The same game around a death of player p1: the other clients fire and    *)
(* report their hits on p1, and Game.tsx offers the respawn                  *)

\* the client of another player reports a hit on the player of this client
OtherHit == \E bulletId \in DOMAIN db.bullets, victimId \in SessionIds :
    /\ hitPlayer(bulletId, victimId)
    /\ UNCHANGED outbox

NextRespawn ==
    \/ Join \/ Mount \/ GameTick \/ Sync \/ Deliver
    \/ OtherShoot \/ OtherHit \/ Respawn

SpecRespawn == Init /\ [][NextRespawn]_vars

----------------------------------------------------------------------------
(* Properties *)

FrameOps == {"animate", "start"}

\* the place of projectile id after the advance of the frame that ends in
\* the primed state
Advanced(id) ==
    [x |-> bullets[id].position.x + Div(bullets[id].velocity.x * deltaTime', 1000),
     y |-> bullets[id].position.y + Div(bullets[id].velocity.y * deltaTime', 1000),
     z |-> bullets[id].position.z + Div(bullets[id].velocity.z * deltaTime', 1000)]

\* the remote players: the entries of the map not keyed by the local id
Remote == (DOMAIN players) \ {currentPlayerId}

\* a and b are more than 0.5 units apart
FartherThanHit(a, b) ==
    \/ Abs(a.x - b.x) > 500
    \/ Abs(a.y - b.y) > 500
    \/ Abs(a.z - b.z) > 500
    \/ (a.x - b.x) * (a.x - b.x) + (a.y - b.y) * (a.y - b.y)
         + (a.z - b.z) * (a.z - b.z) > 250000

InArena(q) == q.x >= -49000 /\ q.x <= 49000 /\ q.z >= -49000 /\ q.z <= 49000

\* C1: in one frame a projectile produces at most one hit event, also when
\* several remote players are within 0.5 units of it
C1_OneVictimPerProjectile ==
    \A id \in BulletIds : Cardinality({h \in hits : h[1] = id}) <= 1

\* C2: an identifier the local simulator has destroyed is never again in the
\* local projectile set
C2_DestroyedNeverReappears ==
    destroyed \cap DOMAIN bullets = {}

\* C3: in every frame a projectile whose advanced position equals a remote
\* player's position causes a hit event for that player, and a projectile
\* farther than 0.5 units from every remote player causes none
C3_CollisionTest ==
    [][lastOp' \in FrameOps =>
         \A id \in DOMAIN bullets :
            /\ \A pid \in Remote :
                  Advanced(id) = players[pid].position => <<id, pid>> \in hits'
            /\ (\A pid \in Remote : FartherThanHit(Advanced(id), players[pid].position))
                  => \A h \in hits' : h[1] # id]_vars

\* a frame has reported a hit by a resting projectile on the player who
\* stands in its place
C3_Witness ==
    /\ lastOp = "animate"
    /\ \E h \in hits : \E i \in DOMAIN gameState.bullets :
          /\ gameState.bullets[i].id = h[1]
          /\ gameState.bullets[i].direction = Vec(0, 0, 0)
          /\ h[2] \in DOMAIN players
          /\ gameState.bullets[i].startPosition = players[h[2]].position

\* C4: a projectile created with age 0 that stays in the bounds and hits no
\* player is kept by every frame at which its age is below 5 s and removed
\* by a frame at which its age is 5 s or more
C4_RemovedAtFiveSeconds ==
    [][lastOp' = "animate" =>
         \A id \in DOMAIN bullets :
            ( /\ instantiated[id].timestamp = instantiated[id].at
              /\ ~OutOfBounds(Advanced(id))
              /\ \A h \in hits' : h[1] # id )
            => (id \in DOMAIN bullets' <=> now' - instantiated[id].at < 5000)]_vars

\* C5: a projectile takes the timestamp of its record as its age clock, so
\* one whose record was 2000 ms old when it was instantiated is gone after
\* any frame that runs 3000 ms or more after the instantiation
C5_RecordTimestampIsAgeClock ==
    \A id \in DOMAIN bullets :
       /\ bullets[id].startTime = instantiated[id].timestamp
       /\ ( /\ lastOp = "animate"
            /\ instantiated[id].timestamp = instantiated[id].at - 2000 )
          => now < instantiated[id].at + 3000

\* C6: after a snapshot every listed remote player has exactly one visual
\* handle and every remote player not listed has none
C6_OneHandlePerListedPlayer ==
    \A id \in PlayerIds \ {currentPlayerId} :
       IF id \in Listed(gameState.players)
       THEN id \in DOMAIN players /\ Meshes(scene, id) = 1
       ELSE id \notin DOMAIN players /\ Meshes(scene, id) = 0

\* a second snapshot has kept the handle of one remote player and left
\* another remote player without one
C6_Witness ==
    /\ lastOp = "updateGameState"
    /\ snapshots >= 2
    /\ \E id \in DOMAIN players : Meshes(scene, id) = 1
    /\ \E id \in PlayerIds \ {currentPlayerId} : id \notin DOMAIN players

\* C7, as claimed: in every state, whatever the order of the calls, the map
\* of remote players has no entry for the local player and no hit event
\* names the local player
C7_NoLocalHandle ==
    /\ currentPlayerId \notin DOMAIN players
    /\ \A h \in hits : h[2] # currentPlayerId

\* C7, amended: when every snapshot so far was reconciled under the current
\* player id, the map of remote players has no entry for the local player;
\* and in every order of the calls no hit event names the local player
C7_NoLocalHandleOnceIdentified ==
    /\ reconciledAs \subseteq {currentPlayerId} => currentPlayerId \notin DOMAIN players
    /\ \A h \in hits : h[2] # currentPlayerId

\* a snapshot that lists the local player was reconciled after the id was set
C7_Witness ==
    /\ lastOp = "updateGameState"
    /\ currentPlayerId \in Listed(gameState.players)
    /\ reconciledAs = {currentPlayerId}
    /\ players # Empty

\* C8: updateGameState leaves the local player's state as it was
C8_LocalStateUntouched ==
    [][lastOp' = "updateGameState" => player' = player]_vars

\* a snapshot listing the local player, dead and elsewhere, was reconciled
\* after the local player had moved
C8_Witness ==
    /\ lastOp = "updateGameState"
    /\ player.position # InitialPlayer.position
    /\ \E i \in DOMAIN gameState.players :
          /\ gameState.players[i].id = currentPlayerId
          /\ gameState.players[i].position # player.position
          /\ ~gameState.players[i].isAlive

\* C9: only a frame changes a projectile that is in the local set;
\* updateGameState leaves its position, velocity and start time alone
C9_KnownProjectileUntouched ==
    [][lastOp' \notin FrameOps =>
         \A id \in DOMAIN bullets :
            id \in DOMAIN bullets' /\ bullets'[id] = bullets[id]]_vars

\* a snapshot was reconciled whose record of a known projectile differs
\* from the local projectile
C9_Witness ==
    /\ lastOp = "updateGameState"
    /\ \E i \in DOMAIN gameState.bullets :
          /\ gameState.bullets[i].id \in DOMAIN bullets
          /\ \/ bullets[gameState.bullets[i].id].startTime # gameState.bullets[i].timestamp
             \/ bullets[gameState.bullets[i].id].position # gameState.bullets[i].startPosition

\* C10: the local player's x and z are in [-49, 49] after every frame, and
\* so are those of every position report
C10_InsideArena ==
    /\ InArena(player.position)
    /\ report.sent => InArena(report.position)

\* a frame has stopped the player at the arena clamp and reported it
C10_Witness ==
    /\ lastOp = "animate"
    /\ player.position.z = -49000
    /\ report.sent
    /\ report.position.z = -49000

\* C11: a frame that starts with the player grounded and the jump key held
\* ends with a vertical velocity of exactly 8 units/s and the player not
\* grounded, and the player becomes grounded again only in a frame that
\* puts it on the floor
C11_JumpImpulse ==
    [][/\ (lastOp' \in FrameOps /\ controls.jump /\ player.isGrounded)
            => (player'.velocity.y = 8000 /\ ~player'.isGrounded)
       /\ (~player.isGrounded /\ player'.isGrounded)
            => (lastOp' \in FrameOps /\ player'.position.y * 2 = player'.height)]_vars

\* C12: the local player's y is never below half its height; when it is at
\* half its height the vertical velocity is 0 and the player is grounded;
\* and a frame of 0.1 s from y = 0.9, height 1.8, vertical velocity -1 and
\* no key held ends at y = 0.9, vertical velocity 0, grounded
C12_GroundClamp ==
    /\ player.position.y * 2 >= player.height
    /\ player.position.y * 2 = player.height
          => (player.velocity.y = 0 /\ player.isGrounded)
    /\ \A g \in BOOLEAN :
          LET q == updatePlayer([InitialPlayer EXCEPT !.position = Vec(0, 900, 0),
                                                      !.velocity = Vec(0, -1000, 0),
                                                      !.isGrounded = g],
                                NoControls, 100)
          IN  q.position.y = 900 /\ q.velocity.y = 0 /\ q.isGrounded

\* a frame of 7 s with the jump key held has ended on the floor: whether the
\* player jumped in it or was falling, the integrated y was below the floor
C12_Witness ==
    /\ lastOp = "animate"
    /\ deltaTime = 7000
    /\ controls.jump
    /\ player.position.y * 2 = player.height
    /\ player.velocity.y = 0
    /\ player.isGrounded

\* C14: no frame integrates more than a bounded elapsed time, taken here as
\* one second: whatever the gap since the last frame, the elapsed time used
\* is at most 1 s and the player moves at most 8 units along an axis
C14_DeltaTimeClamped ==
    [][lastOp' = "animate" =>
         /\ deltaTime' <= 1000
         /\ Abs(player'.position.x - player.position.x) <= 8000
         /\ Abs(player'.position.z - player.position.z) <= 8000]_vars

\* C15: after every frame every projectile of the local set has
\* |x| <= 50, |z| <= 50 and 0 <= y <= 10
C15_RemainingInBounds ==
    lastOp \in FrameOps =>
       \A id \in DOMAIN bullets :
          /\ bullets[id].position.x >= -50000 /\ bullets[id].position.x <= 50000
          /\ bullets[id].position.z >= -50000 /\ bullets[id].position.z <= 50000
          /\ bullets[id].position.y >= 0 /\ bullets[id].position.y <= 10000

\* a frame has removed a moving projectile that was younger than 5 s and
\* hit nobody
C15_Witness ==
    /\ lastOp = "animate"
    /\ hits = {}
    /\ bullets = Empty
    /\ destroyed # {}
    /\ \E i \in DOMAIN gameState.bullets :
          /\ gameState.bullets[i].id \in destroyed
          /\ gameState.bullets[i].direction.x # 0
          /\ now - gameState.bullets[i].timestamp < 5000

\* C13: a position report is made 50 ms or more after the one before it,
\* and the first one 50 ms or more after start()
C13_ReportsFiftyApart ==
    [][report'.sent => now' - reportedAt >= 50]_vars

\* a frame 16 ms after a frame that made no report has made one
C13_Witness ==
    /\ lastOp = "animate"
    /\ deltaTime = 16
    /\ report.sent
    /\ ticks >= 3

\* C16: a mouse-down event makes exactly one onShoot call when the canvas
\* holds the pointer lock and the button is the primary one, and none
\* otherwise; nothing else makes an onShoot call; and the view changes only
\* in a mouse-move event while the canvas holds the pointer lock
C16_FireOnlyWhileLocked ==
    [][/\ Len(shots') = Len(shots) +
             (IF /\ lastOp' = "onMouseDown"
                 /\ pointerLock
                 /\ mouseEvent'.button = 0
              THEN 1 ELSE 0)
       /\ player'.rotation # player.rotation
             => (lastOp' = "onMouseMove" /\ pointerLock)]_vars

\* the primary button has fired a shot with the lock held, and then the
\* primary button was pressed again without the lock
C16_Witness ==
    /\ lastOp = "onMouseDown"
    /\ mouseEvent.button = 0
    /\ ~pointerLock
    /\ Len(shots) = 1
    /\ player.rotation.x = QuarterTurn

\* C17: once dispose() has returned, no frame callback, key event, mouse
\* event or timer changes the local player or a projectile, and none makes
\* a position report, a fire report or a hit report
C17_NothingAfterDispose ==
    [][disposed =>
         /\ player' = player
         /\ bullets' = bullets
         /\ ~report'.sent
         /\ hits' = {}
         /\ shots' = shots]_vars

\* the frame callback that was scheduled when dispose() ran has been called,
\* with the pointer lock held and the jump key down
C17_Witness ==
    /\ disposed
    /\ lastOp = "animateReturn"
    /\ pointerLock
    /\ controls.jump
    /\ ~rafPending

\* C18: when initializeEngine() is over the session has an engine that is
\* running, the full one or, where that one could not be constructed or
\* started, the simplified one
C18_FallsBackToSimplified ==
    isEngineReady => (gameEngineRef \in {"full", "simplified"} /\ isRunning)

\* the snapshot without its player records that lack a position and without
\* its bullet records that lack a start position or direction
WithoutBadRecords(gs) ==
    [players |-> SelectSeq(gs.players, HasPosition),
     bullets |-> SelectSeq(gs.bullets, HasStart)]

\* C19: updateGameState with a snapshot in which a record lacks its
\* position leaves the remote players, the projectiles and the scene as it
\* would leave them with the same snapshot without that record
C19_SkipsOnlyBadRecord ==
    [][lastOp' = "updateGameState" =>
         LET r == reconciled(WithoutBadRecords(gameState'), players, bullets, scene,
                             currentPlayerId)
         IN  players' = r.players /\ bullets' = r.bullets /\ scene' = r.scene]_vars

\* C20: a hit report that names a bullet or a victim the tables do not
\* hold, a bullet whose shooter the players table does not hold, or a victim
\* who is dead, returns null and changes no table
C20_InvalidHitChangesNothing ==
    [][( /\ lastOp' = "hitPlayer"
         /\ \/ request'.bulletId \notin DOMAIN db.bullets
            \/ request'.victimId \notin DOMAIN db.players
            \/ db.bullets[request'.bulletId].playerId \notin DOMAIN db.players
            \/ ~db.players[request'.victimId].isAlive )
       => (result' = Null /\ db' = db)]_vars

\* a hit report was turned down that named a bullet of the table and a
\* victim who was dead, killed by an earlier hit
C20_Witness ==
    /\ lastOp = "hitPlayer"
    /\ result = Null
    /\ request.bulletId \in DOMAIN db.bullets
    /\ request.victimId \in DOMAIN db.players
    /\ db.bullets[request.bulletId].playerId \in DOMAIN db.players
    /\ ~db.players[request.victimId].isAlive
    /\ db.players[request.victimId].deaths = 1
    /\ Len(db.kills) = 1

\* C21: respawnPlayer leaves the player with health 100, alive and at one
\* of the four spawn points (10,1,10), (-10,1,10), (10,1,-10), (-10,1,-10);
\* the kills and deaths of that player and the record of every other player
\* are what they were
C21_RespawnResets ==
    [][lastOp' = "respawnPlayer" =>
          LET id == request'.playerId
          IN  /\ DOMAIN db'.players = DOMAIN db.players
              /\ db'.players[id].health = 100
              /\ db'.players[id].isAlive
              /\ db'.players[id].position \in
                     {Vec(10000, 1000, 10000), Vec(-10000, 1000, 10000),
                      Vec(10000, 1000, -10000), Vec(-10000, 1000, -10000)}
              /\ db'.players[id].kills = db.players[id].kills
              /\ db'.players[id].deaths = db.players[id].deaths
              /\ \A other \in DOMAIN db.players \ {id} :
                     db'.players[other] = db.players[other]]_vars

\* a player who died once has respawned next to a wounded player with a kill
C21_Witness ==
    /\ lastOp = "respawnPlayer"
    /\ request.playerId \in DOMAIN db.players
    /\ db.players[request.playerId].deaths = 1
    /\ db.players[request.playerId].health = MaxHealth
    /\ \E other \in DOMAIN db.players \ {request.playerId} :
           /\ db.players[other].kills = 1
           /\ db.players[other].health < MaxHealth

\* the bullet records shootBullet has added in the step
Persisted == {b \in DOMAIN db'.bullets : b \notin DOMAIN db.bullets}

\* the step has persisted exactly one projectile record, which holds what
\* the report said, speed 100, damage 25 and the server's time
PersistsTheReport ==
    /\ Cardinality(Persisted) = 1
    /\ \A b \in Persisted :
           /\ db'.bullets[b].playerId = request'.playerId
           /\ db'.bullets[b].startPosition = request'.startPosition
           /\ db'.bullets[b].direction = request'.direction
           /\ db'.bullets[b].speed = 100
           /\ db'.bullets[b].damage = 25
           /\ db'.bullets[b].timestamp = now'
           /\ result' = [id |-> b]
    /\ \A b \in DOMAIN db.bullets :
           b \in DOMAIN db'.bullets /\ db'.bullets[b] = db.bullets[b]

\* C22 as stated: every fire report persists exactly one new projectile
\* record with the reported start position and direction, speed 100,
\* damage 25 and the server timestamp, whatever the state of the reporter
C22_EveryReportPersists ==
    [][lastOp' = "shootBullet" => PersistsTheReport]_vars

\* C22: a fire report of a player who exists and is alive persists exactly
\* one new projectile record with the reported start position and
\* direction, speed 100, damage 25 and the server timestamp; a report of a
\* player who is dead or unknown returns null and persists nothing
C22_AliveReportPersists ==
    [][lastOp' = "shootBullet" =>
          IF /\ request'.playerId \in DOMAIN db.players
             /\ db.players[request'.playerId].isAlive
          THEN PersistsTheReport
          ELSE db' = db /\ result' = Null]_vars

\* a dead player has reported a shot, after shots that were persisted
C22_Witness ==
    /\ lastOp = "shootBullet"
    /\ result = Null
    /\ request.playerId \in DOMAIN db.players
    /\ ~db.players[request.playerId].isAlive
    /\ db.issued > 0

\* C24: a projectile that a frame removes because it is older than 5 s or
\* because its advanced position is out of bounds produces no hit event in
\* that frame
C24_RemovedEmitsNoHit ==
    [][lastOp' \in FrameOps =>
          \A id \in DOMAIN bullets :
             (\/ now' - bullets[id].startTime > 5000
              \/ Advanced(id).x < -50000 \/ Advanced(id).x > 50000
              \/ Advanced(id).z < -50000 \/ Advanced(id).z > 50000
              \/ Advanced(id).y < 0 \/ Advanced(id).y > 10000)
             => \A h \in hits' : h[1] # id]_vars

\* C25: the step in which the local player fires puts a new projectile in
\* the local projectile set, before any snapshot has arrived
C25_FiringCreatesProjectile ==
    [][Len(shots') > Len(shots) =>
          \E id \in DOMAIN bullets' : id \notin DOMAIN bullets]_vars

\* C29: after every frame the local player is grounded only if its y is
\* half its current height (to the last digit of the fixed point)
C29_GroundedOnlyOnFloor ==
    (lastOp \in FrameOps /\ player.isGrounded)
       => Abs(player.position.y * 2 - player.height) <= 1

\* some player's health differs after the step
HealthChanged ==
    \E p \in DOMAIN db.players :
       p \in DOMAIN db'.players /\ db'.players[p].health # db.players[p].health

\* C26: of the hit reports that name one bullet id at most one changes a
\* player's health: a report whose bullet has already been applied returns
\* null and changes nothing, whoever its victim is
C26_BulletAppliedOnce ==
    [][lastOp' = "hitPlayer" =>
          LET before == Meshes(applied, request'.bulletId)
              after == Meshes(applied', request'.bulletId)
          IN  /\ after = before + (IF HealthChanged THEN 1 ELSE 0)
              /\ after <= 1
              /\ before >= 1 => (result' = Null /\ db' = db)]_vars

\* a second report of a bullet that has been applied names a victim who is
\* alive, while the shooter is still in the game, and is turned down
C26_Witness ==
    /\ lastOp = "hitPlayer"
    /\ result = Null
    /\ Meshes(applied, request.bulletId) = 1
    /\ request.victimId \in DOMAIN db.players
    /\ db.players[request.victimId].isAlive
    /\ \E p \in DOMAIN db.players : p # request.victimId /\ db.players[p].health < MaxHealth

\* C27: every player record has 0 <= health <= maxHealth, and is alive
\* exactly when its health is above 0
C27_HealthInRange ==
    \A p \in DOMAIN db.players :
       /\ db.players[p].health >= 0
       /\ db.players[p].health <= db.players[p].maxHealth
       /\ db.players[p].isAlive <=> db.players[p].health > 0

\* a player who was killed by another player has respawned and has then
\* reported a position
C27_Witness ==
    /\ lastOp = "updatePlayerPosition"
    /\ db.players[request.playerId].deaths = 1
    /\ db.players[request.playerId].health = MaxHealth
    /\ db.players[request.playerId].isAlive
    /\ db.players[request.playerId].position = request.position
    /\ \E p \in DOMAIN db.players : p # request.playerId /\ db.players[p].kills = 1

\* the sum of the values of f
RECURSIVE Total(_)
Total(f) ==
    IF DOMAIN f = {} THEN 0
    ELSE LET k == CHOOSE k \in DOMAIN f : TRUE
         IN  f[k] + Total(MapDelete(f, k))

\* the kills and the deaths of all players of the tables d
KillsTotal(d) == Total([p \in DOMAIN d.players |-> d.players[p].kills])
DeathsTotal(d) == Total([p \in DOMAIN d.players |-> d.players[p].deaths])

\* the step is a hit that takes an alive victim's health to 0
KillingHit ==
    /\ lastOp' = "hitPlayer"
    /\ \E v \in DOMAIN db.players :
          /\ db.players[v].isAlive
          /\ db.players[v].health > 0
          /\ db'.players[v].health = 0

\* C28: the kills of all players and the deaths of all players both add up
\* to the number of kill records, and a step adds a kill record exactly
\* when it is a hit that takes an alive victim's health to 0
C28_KillsBalance ==
    [][/\ KillsTotal(db') = Len(db'.kills)
       /\ DeathsTotal(db') = Len(db'.kills)
       /\ Len(db'.kills) = Len(db.kills) + (IF KillingHit THEN 1 ELSE 0)
       /\ \A i \in DOMAIN db.kills : db'.kills[i] = db.kills[i]]_vars

\* a hit has killed: there is a kill record, and its victim was wounded by
\* the bullets of the killer
C28_Witness ==
    /\ lastOp = "hitPlayer"
    /\ result # Null
    /\ result.killed
    /\ Len(db.kills) = 1
    /\ db.kills[1].killerId # db.kills[1].victimId
    /\ db.players[db.kills[1].killerId].kills = 1
    /\ db.players[db.kills[1].victimId].deaths = 1

\* C23: no hit event names as its victim the player who fired the
\* projectile, and the authority applies no hit of a bullet on the player
\* who fired it
C23_NeverHitsItsFirer ==
    [][/\ \A h \in hits' :
             h[1] \in DOMAIN db.bullets => db.bullets[h[1]].playerId # h[2]
       /\ (lastOp' = "hitPlayer" /\ result' # Null)
             => db.bullets[request'.bulletId].playerId # request'.victimId]_vars

\* C30: a position report the client has sent after the authority has put
\* its player on a spawn point leaves the stored position on that spawn
\* point when it is delivered; the client's keys are never pressed
C30_RespawnPositionStays ==
    [][\A m \in outbox \ outbox' :
          (/\ m.mutation = "updatePlayerPosition"
           /\ m.playerId \in DOMAIN db.players
           /\ db.players[m.playerId].deaths > 0
           /\ db.players[m.playerId].isAlive
           /\ db.players[m.playerId].position \in SpawnPositions
           /\ m.sentAt > db.players[m.playerId].lastUpdate
           /\ controls = NoControls)
          => db'.players[m.playerId].position = db.players[m.playerId].position]_vars

====
